---- MODULE Spec2Model ----
(***************************************************************************)
(* Request admission and observability pipeline of the VisionData REST     *)
(* API: the global admission gate (weighted semaphore), the per-client     *)
(* fixed-window rate limiter over the shared counting store, the handler   *)
(* chain behind them, and the asynchronous log pipeline (bounded queue,    *)
(* single batching worker, graceful shutdown).                             *)
(*                                                                         *)
(* Two builds of the middleware are in the repository: the one of          *)
(* internal/middleware/throttling.go and the later one of unnamed/part_011 *)
(* (rate-limit headers on rejections, swagger bypass). The variable build  *)
(* says which one runs. Three logger implementations are in the            *)
(* repository (pkg/logger Logger, FileLogger, ElasticsearchLogger); the    *)
(* variable kind says which one runs.                                      *)
(***************************************************************************)
EXTENDS Integers, Sequences, FiniteSets, TLC

----------------------------------------------------------------------------
(* Bounds of the model *)

\* request slots: connections net/http serves concurrently; a slot that has
\* finished a request takes the next one
NumReq == 2
\* MAX_REQUEST_COUNT_GLOBAL, scaled down
Capacity == 1
\* MAX_REQUEST_COUNT_BY_IP, scaled down
MaxRequests == 2
\* rateLimitWindow, in clock ticks
Window == 2

\* c.ClientIP()
Clients == {"10.0.0.1"}

\* log calls made in a run
MaxCalls == 3
\* Config.BufferSize, scaled down
BufferSize == 2
\* Config.BatchSize (the literal 100 of pkg/logger), scaled down
BatchSize == 2

\* uuid.New() calls made in a run
MaxUuids == 3
\* Flush() calls made in a run
MaxFlushes == 1

\* cfg.MaxBodySize in bytes (2048 in setupLogger), scaled down
MaxBodySize == 2

\* Write calls one handler makes on the response writer
MaxWrites == 2

\* length of the query parameter q
MaxQuery == 2

\* start-ups of an API instance while others run
MaxBoots == 1

Builds == {"throttling.go", "part_011"}

----------------------------------------------------------------------------
VARIABLES
  build,   \* which build of the middleware package runs
  req,     \* per request slot: position in the chain and what it has done
  sema,    \* semaphore.Weighted: size, cur (tokens taken), waiters (FIFO)
  redis,   \* counting store: key (client ip) -> [val, ttl]
  hist     \* per client: bookkeeping of the current window (history)

pipeVars == <<build, req, sema, redis, hist>>

\* the request slots of the run: NumReq of them, one more where the gate's
\* queue is studied
Reqs == DOMAIN req

VARIABLES
  kind,        \* which logger implementation runs
  logChannel,  \* the buffered channel of entries (capacity BufferSize)
  chClosed,    \* close(l.logChannel) has run
  batch,       \* the worker's batch
  sink,        \* what has reached the log file / the index, in order
  needOpen,    \* the file must be (re)opened before the next write
  sinkUp,      \* the file system / the index accepts writes
  worker,      \* processLogs: "running" or "exited"
  closer,      \* Close(): "none", "wait" (in wg.Wait) or "returned"
  calls,       \* number of log calls made so far
  last,        \* the last log call: id, level and what became of it
  pre,         \* ids accepted into the queue before Close() was called
  sinkFailed,  \* a flush has met a sink that did not accept the write
  flushes      \* number of Flush() calls made so far

logVars == <<kind, logChannel, chClosed, batch, sink, needOpen, sinkUp, worker,
             closer, calls, last, pre, sinkFailed, flushes>>

VARIABLES
  jwt,     \* which build of the Auth middleware runs
  uuids,   \* number of uuid.New() calls made so far
  capture, \* LoggerMiddleware: what one request's capture has seen and kept
  search,  \* GetByWord: one request to the ticket search and its answer
  boot     \* start-ups of an API instance on the shared store so far

chainVars == <<jwt, uuids, capture, search, boot>>

----------------------------------------------------------------------------
(* The counting store holds strings. Set(ip, 1, window) stores "1", Incr   *)
(* parses the decimal string, adds one and stores the decimal string, and  *)
(* checkRateLimit parses what Get returns with strconv.Atoi.               *)

Digits == <<"0", "1", "2", "3", "4", "5", "6", "7", "8", "9">>

DigitVal(ch) == CHOOSE d \in 0..9 : Digits[d + 1] = ch

IsDigit(ch) == \E d \in 0..9 : Digits[d + 1] = ch

\* strconv.Itoa for the naturals the model reaches
RECURSIVE Itoa(_)
Itoa(n) == IF n < 10 THEN <<Digits[n + 1]>>
           ELSE Itoa(n \div 10) \o <<Digits[(n % 10) + 1]>>

RECURSIVE AtoiDigits(_, _)
AtoiDigits(s, acc) ==
  IF s = <<>> THEN acc
  ELSE AtoiDigits(Tail(s), acc * 10 + DigitVal(Head(s)))

\* strconv.Atoi on an unsigned string: [ok, n]
Atoi(s) ==
  IF s # <<>> /\ \A i \in 1..Len(s) : IsDigit(s[i])
  THEN [ok |-> TRUE, n |-> AtoiDigits(s, 0)]
  ELSE [ok |-> FALSE, n |-> 0]

\* TTL replies of the store: -2 no such key, -1 key without expiry
NoKey == -2
NoExpiry == -1

Absent == [val |-> <<>>, ttl |-> NoKey]

Exists(k) == redis[k].ttl # NoKey

\* what another user of the shared store may leave under a client's key
Garbage == <<"x">>

----------------------------------------------------------------------------
(* Requests *)

\* jwt.MapClaims of a token: the claims present (has) and their values
NoClaims == [has |-> {}, user_id |-> 0, role |-> 0, exp |-> 0]

RateLimitHeaders ==
  {"Retry-After", "X-RateLimit-Limit", "X-RateLimit-Remaining", "X-RateLimit-Reset"}

Fresh(c) ==
  [pc     |-> "idle",   \* position in the middleware chain
   ip     |-> c,        \* client address
   status |-> 0,        \* HTTP status written, 0 = none yet
   by     |-> "none",   \* component that wrote the response
   hdrs   |-> {},       \* rate-limit headers set on the response
   retry  |-> 0,        \* value of Retry-After (seconds / ticks)
   lim    |-> "none",   \* verdict of the rate limiter
   ops    |-> FALSE,    \* issued an operation on the counting store
   err    |-> FALSE,    \* a store operation failed or Atoi failed
   wrote  |-> FALSE,    \* wrote the client's counter (Set or Incr)
   ran    |-> FALSE,    \* the handler chain behind the limiter executed
   logged |-> "no",     \* log entry: no / queued / dropped
   panic  |-> FALSE,    \* a panic is unwinding the chain
   rel    |-> 0,        \* number of sema.Release calls made for it
   inbound |-> <<>>,    \* X-Request-ID of the request, <<>> = none
   skip   |-> FALSE,    \* the path is one of the logger's SkipPaths
   logId  |-> <<>>,     \* requestID of LoggerMiddleware (goes into the entry)
   rid    |-> <<>>,     \* request_id in the gin context
   hdrId  |-> <<>>,     \* X-Request-ID of the response, <<>> = not set
   route  |-> "unset",  \* matched route: public / protected / noroute
   swagger |-> FALSE,   \* c.FullPath() contains "swagger"
   minScope |-> 0,      \* minAccesScope the route group declares
   authz  |-> <<>>,     \* Authorization header of the request
   auth   |-> "none",   \* verdict of Auth: none / pass / 401
   user   |-> NoClaims, \* currentUser in the gin context
   seen   |-> NoClaims, \* claims the route handler read from the context
   runs   |-> 0,        \* number of times the route handler ran
   ev     |-> <<>>]     \* what LoggerMiddleware and RequestIDMiddleware
                        \* did before the route ran, in program order

InCheck(r) == req[r].pc \in {"rl_set", "rl_ttl", "rl_incr"}

Holding(r) ==
  req[r].pc \in {"rl_get", "rl_set", "rl_ttl", "rl_incr", "next", "route",
                 "handler", "log", "defer"}

HistInit == [age |-> 0, admitted |-> 0, clean |-> TRUE, foreign |-> FALSE]

\* the log pipeline as the request path sees it: out of the picture
LogIdle ==
  /\ kind = "ElasticsearchLogger"
  /\ logChannel = <<>>
  /\ chClosed = FALSE
  /\ batch = <<>>
  /\ sink = <<>>
  /\ needOpen = FALSE
  /\ sinkUp = TRUE
  /\ worker = "running"
  /\ closer = "none"
  /\ calls = 0
  /\ last = [id |-> 0, level |-> "INFO", outcome |-> "none"]
  /\ pre = {}
  /\ sinkFailed = FALSE
  /\ flushes = 0

\* the chain behind the limiter as the other parts see it
CaptureIdle ==
  [phase |-> "start", sent |-> <<>>, readErr |-> FALSE, body |-> <<>>,
   requestBody |-> <<>>, read |-> FALSE, handlerBody |-> <<>>,
   writes |-> 0, resp |-> <<>>, client |-> <<>>, buf |-> <<>>,
   responseBody |-> <<>>, header |-> <<>>, headers |-> <<>>,
   logFields |-> <<>>, fields |-> <<>>]

NoForm == [has |-> {}, q |-> <<>>, page |-> <<>>, page_size |-> <<>>]

NoParams == [Query |-> <<>>, Page |-> 0, PageSize |-> 0]

NoOutcome == [failed |-> FALSE, error |-> "", result |-> ""]

SearchIdle ==
  [phase |-> "start", form |-> NoForm, called |-> FALSE, params |-> NoParams,
   out |-> NoOutcome, status |-> 0, error |-> "", body |-> ""]

NoBoot == [n |-> 0, ok |-> FALSE, wiped |-> 0]

ChainIdle ==
  /\ jwt = "part_010" /\ uuids = 0 /\ capture = CaptureIdle
  /\ search = SearchIdle /\ boot = NoBoot

Init ==
  /\ build \in Builds
  /\ req = [r \in 1..NumReq |-> Fresh(CHOOSE c \in Clients : TRUE)]
  /\ sema = [size |-> Capacity, cur |-> 0, waiters |-> <<>>]
  /\ redis = [c \in Clients |-> Absent]
  /\ hist = [c \in Clients |-> HistInit]
  /\ LogIdle
  /\ ChainIdle

----------------------------------------------------------------------------
(* Admission gate: golang.org/x/sync/semaphore, weight 1 per request *)

Min(a, b) == IF a < b THEN a ELSE b

RECURSIVE Without(_, _)
Without(s, x) ==
  IF s = <<>> THEN <<>>
  ELSE IF Head(s) = x THEN Tail(s)
  ELSE <<Head(s)>> \o Without(Tail(s), x)

\* Weighted.notifyWaiters: grant tokens to the waiters at the front, in order,
\* while tokens are left; a granted waiter's ready channel is closed.
NotifyCount(cur, ws) == Min(sema.size - cur, Len(ws))

NotifyGranted(cur, ws) == {ws[i] : i \in 1..NotifyCount(cur, ws)}

NotifySema(cur, ws) ==
  [size    |-> sema.size,
   cur     |-> cur + NotifyCount(cur, ws),
   waiters |-> SubSeq(ws, NotifyCount(cur, ws) + 1, Len(ws))]

CanAcquireStrict == sema.size - sema.cur > 1 /\ sema.waiters = <<>>

\* Acquire's fast path: s.size-s.cur >= n && s.waiters.Len() == 0
CanAcquire == sema.size - sema.cur >= 1 /\ sema.waiters = <<>>

\* the response of the gate when Acquire returns an error; the middleware
\* returns without calling c.Next()
GateRejectNoReturn(q) ==
  [q EXCEPT !.pc = "rl_get", !.status = 429, !.by = "gate",
            !.hdrs = IF build = "part_011" THEN RateLimitHeaders ELSE {},
            !.retry = IF build = "part_011" THEN 60 ELSE 0]

GateReject(q) ==
  [q EXCEPT !.pc = "done", !.status = 429, !.by = "gate",
            !.hdrs = IF build = "part_011" THEN RateLimitHeaders ELSE {},
            !.retry = IF build = "part_011" THEN 60 ELSE 0]

\* a request arrives whose context is already done: Acquire fails at once
ArriveCancelled(r, c) ==
  /\ req[r].pc \in {"idle", "done"}
  /\ req' = [req EXCEPT ![r] = GateReject(Fresh(c))]
  /\ UNCHANGED <<build, sema, redis, hist, logVars, chainVars>>

\* Acquire, fast path: a token is free and nobody waits
ArriveFast(r, c) ==
  /\ req[r].pc \in {"idle", "done"}
  /\ CanAcquire
  /\ sema' = [sema EXCEPT !.cur = @ + 1]
  /\ req' = [req EXCEPT ![r] = [Fresh(c) EXCEPT !.pc = "rl_get"]]
  /\ UNCHANGED <<build, redis, hist, logVars, chainVars>>

ArriveWaitFront(r, c) ==
  /\ req[r].pc \in {"idle", "done"}
  /\ ~CanAcquire
  /\ sema' = [sema EXCEPT !.waiters = <<r>> \o @]
  /\ req' = [req EXCEPT ![r] = [Fresh(c) EXCEPT !.pc = "waiting"]]
  /\ UNCHANGED <<build, redis, hist, logVars, chainVars>>

\* Acquire, slow path: the request joins the waiters and blocks
ArriveWait(r, c) ==
  /\ req[r].pc \in {"idle", "done"}
  /\ ~CanAcquire
  /\ sema' = [sema EXCEPT !.waiters = Append(@, r)]
  /\ req' = [req EXCEPT ![r] = [Fresh(c) EXCEPT !.pc = "waiting"]]
  /\ UNCHANGED <<build, redis, hist, logVars, chainVars>>

\* the context of a blocked request is cancelled: it leaves the waiters and
\* Acquire returns the context's error
WaitCancelled(r) ==
  /\ req[r].pc = "waiting"
  /\ LET ws == Without(sema.waiters, r)
         front == Head(sema.waiters) = r
         g == IF front /\ sema.size > sema.cur THEN NotifyGranted(sema.cur, ws) ELSE {}
     IN /\ sema' = IF front /\ sema.size > sema.cur
                   THEN NotifySema(sema.cur, ws)
                   ELSE [sema EXCEPT !.waiters = ws]
        /\ req' = [q \in Reqs |->
                     IF q = r THEN GateReject(req[r])
                     ELSE IF q \in g THEN [req[q] EXCEPT !.pc = "granted"]
                     ELSE req[q]]
  /\ UNCHANGED <<build, redis, hist, logVars, chainVars>>

\* a granted waiter resumes: Acquire returns nil
AcquireReturn(r) ==
  /\ req[r].pc = "granted"
  /\ req' = [req EXCEPT ![r].pc = "rl_get"]
  /\ UNCHANGED <<build, sema, redis, hist, logVars, chainVars>>

\* a granted waiter whose context was cancelled meanwhile: the token is put
\* back, the next waiters are notified and Acquire returns the error
AcquireReturnCancelled(r) ==
  /\ req[r].pc = "granted"
  /\ LET g == NotifyGranted(sema.cur - 1, sema.waiters)
     IN /\ sema' = NotifySema(sema.cur - 1, sema.waiters)
        /\ req' = [q \in Reqs |->
                     IF q = r THEN GateReject(req[r])
                     ELSE IF q \in g THEN [req[q] EXCEPT !.pc = "granted"]
                     ELSE req[q]]
  /\ UNCHANGED <<build, redis, hist, logVars, chainVars>>

\* the request is over; its context is discarded
Released(q) == [Fresh(q.ip) EXCEPT !.pc = "done", !.rel = q.rel + 1]

\* defer sema.Release(1): runs when c.Next() returns and when a panic unwinds
ReleaseNoDefer(r) ==
  /\ req[r].pc = "defer"
  /\ IF req[r].panic
     THEN /\ req' = [req EXCEPT ![r] = [Fresh(req[r].ip) EXCEPT !.pc = "done"]]
          /\ UNCHANGED sema
     ELSE LET g == NotifyGranted(sema.cur - 1, sema.waiters)
          IN /\ sema' = NotifySema(sema.cur - 1, sema.waiters)
             /\ req' = [q \in Reqs |->
                          IF q = r THEN Released(req[r])
                          ELSE IF q \in g THEN [req[q] EXCEPT !.pc = "granted"]
                          ELSE req[q]]
  /\ UNCHANGED <<build, redis, hist, logVars, chainVars>>

Release(r) ==
  /\ req[r].pc = "defer"
  /\ LET g == NotifyGranted(sema.cur - 1, sema.waiters)
     IN /\ sema' = NotifySema(sema.cur - 1, sema.waiters)
        /\ req' = [q \in Reqs |->
                     IF q = r THEN Released(req[r])
                     ELSE IF q \in g THEN [req[q] EXCEPT !.pc = "granted"]
                     ELSE req[q]]
  /\ UNCHANGED <<build, redis, hist, logVars, chainVars>>

----------------------------------------------------------------------------
(* Rate limiter: RateLimiter.Middleware and checkRateLimit. Get, Set, TTL  *)
(* and Incr are separate round trips to the store; each is one step.       *)

Others(r) == \E q \in Reqs \ {r} : req[q].ip = req[r].ip /\ InCheck(q)

\* requestCount >= rl.maxRequests
OverLimitGt(n) == n > MaxRequests

OverLimit(n) == n >= MaxRequests

\* handleError: a 500 that aborts the chain
LimiterFailNoAbort(q) ==
  [q EXCEPT !.pc = "next", !.status = 500, !.by = "limiter", !.lim = "500",
            !.err = TRUE, !.ops = TRUE]

LimiterFail(q) ==
  [q EXCEPT !.pc = "defer", !.status = 500, !.by = "limiter", !.lim = "500",
            !.err = TRUE, !.ops = TRUE]

\* handleRateLimitExceeded: a 429 carrying the remaining TTL
LimiterReject(q, ttl) ==
  [q EXCEPT !.pc = "defer", !.status = 429, !.by = "limiter", !.lim = "429",
            !.retry = ttl, !.ops = TRUE,
            !.hdrs = IF build = "part_011" THEN RateLimitHeaders ELSE {"Retry-After"}]

LimiterPassToHandler(q) ==
  [q EXCEPT !.pc = "handler", !.lim = "pass", !.ops = TRUE]

LimiterPass(q) == [q EXCEPT !.pc = "next", !.lim = "pass", !.ops = TRUE]

Taint(c) == [hist EXCEPT ![c].clean = FALSE]

\* part_011 only: a route whose pattern contains "swagger" skips the limiter
RlBypass(r) ==
  /\ req[r].pc = "rl_get"
  /\ build = "part_011"
  /\ req' = [req EXCEPT ![r].pc = "next", ![r].lim = "bypass",
                        ![r].swagger = TRUE]
  /\ UNCHANGED <<build, sema, redis, hist, logVars, chainVars>>

\* val, err := rl.redis.Get(ctx, ip).Result() and the branches on its reply
\* sw: the request's route pattern contains "swagger"; part_011 takes such
\* a request past the limiter (RlBypass), throttling.go does not look
RlGet(r, sw) ==
  /\ req[r].pc = "rl_get"
  /\ sw => build = "throttling.go"
  /\ LET c == req[r].ip
         a == Atoi(redis[c].val)
     IN \E fail \in BOOLEAN :
          IF fail
          THEN /\ req' = [req EXCEPT ![r] = [LimiterFail(@) EXCEPT !.swagger = sw]]
               /\ hist' = Taint(c)
          ELSE IF ~Exists(c)
          THEN /\ req' = [req EXCEPT ![r].pc = "rl_set", ![r].ops = TRUE,
                                     ![r].swagger = sw]
               /\ hist' = [hist EXCEPT ![c].clean = ~Others(r)]
          ELSE IF ~a.ok
          THEN /\ req' = [req EXCEPT ![r] = [LimiterFail(@) EXCEPT !.swagger = sw]]
               /\ hist' = Taint(c)
          ELSE /\ req' = [req EXCEPT
                            ![r].pc = IF OverLimit(a.n) THEN "rl_ttl" ELSE "rl_incr",
                            ![r].ops = TRUE,
                            ![r].swagger = sw]
               /\ hist' = IF Others(r) THEN Taint(c) ELSE hist
  /\ UNCHANGED <<build, sema, redis, logVars, chainVars>>

\* rl.redis.Set(ctx, ip, 1, rl.window): first request of the window
RlSet(r) ==
  /\ req[r].pc = "rl_set"
  /\ LET c == req[r].ip
     IN \E fail \in BOOLEAN :
          IF fail
          THEN /\ req' = [req EXCEPT ![r] = LimiterFail(@)]
               /\ hist' = Taint(c)
               /\ UNCHANGED redis
          ELSE /\ redis' = [redis EXCEPT ![c] = [val |-> Itoa(1), ttl |-> Window]]
               /\ req' = [req EXCEPT ![r] = [LimiterPass(@) EXCEPT !.wrote = TRUE]]
               /\ hist' = [hist EXCEPT
                             ![c].admitted = @ + 1,
                             ![c].age = IF Exists(c) THEN @ ELSE 0]
  /\ UNCHANGED <<build, sema, logVars, chainVars>>

\* rl.redis.TTL(ctx, ip): the limit is reached, the request is rejected
RlTTL(r) ==
  /\ req[r].pc = "rl_ttl"
  /\ LET c == req[r].ip
     IN \E fail \in BOOLEAN :
          IF fail
          THEN /\ req' = [req EXCEPT ![r] = LimiterFail(@)]
               /\ hist' = Taint(c)
          ELSE /\ req' = [req EXCEPT ![r] = LimiterReject(@, redis[c].ttl)]
               /\ UNCHANGED hist
  /\ UNCHANGED <<build, sema, redis, logVars, chainVars>>

\* rl.redis.Incr(ctx, ip): INCR creates a missing key as "1" without expiry,
\* fails on a value that is no integer, and keeps the expiry of the key
RlIncr(r) ==
  /\ req[r].pc = "rl_incr"
  /\ LET c == req[r].ip
         a == Atoi(redis[c].val)
     IN \E fail \in BOOLEAN :
          IF fail \/ (Exists(c) /\ ~a.ok)
          THEN /\ req' = [req EXCEPT ![r] = LimiterFail(@)]
               /\ hist' = Taint(c)
               /\ UNCHANGED redis
          ELSE /\ redis' = [redis EXCEPT ![c] =
                              IF Exists(c)
                              THEN [val |-> Itoa(a.n + 1), ttl |-> redis[c].ttl]
                              ELSE [val |-> Itoa(1), ttl |-> NoExpiry]]
               /\ req' = [req EXCEPT ![r] = [LimiterPass(@) EXCEPT !.wrote = TRUE]]
               /\ hist' = [hist EXCEPT
                             ![c].admitted = @ + 1,
                             ![c].age = IF Exists(c) THEN @ ELSE 0]
  /\ UNCHANGED <<build, sema, logVars, chainVars>>

\* the store's clock: every expiry counts down, a key whose expiry reaches
\* zero is deleted; a window that ends under a request in checkRateLimit is
\* no longer a sequential one
Tick ==
  /\ \E c \in Clients : Exists(c) /\ (redis[c].ttl > 0 \/ hist[c].age < Window)
  /\ redis' = [c \in Clients |->
                 IF redis[c].ttl > 1 THEN [redis[c] EXCEPT !.ttl = @ - 1]
                 ELSE IF redis[c].ttl = 1 THEN Absent
                 ELSE redis[c]]
  /\ hist' = [c \in Clients |->
                IF redis[c].ttl = 1
                THEN [hist[c] EXCEPT
                        !.age = 0, !.admitted = 0,
                        !.clean = @ /\ ~\E q \in Reqs : req[q].ip = c /\ InCheck(q)]
                ELSE IF Exists(c)
                THEN [hist[c] EXCEPT !.age = Min(@ + 1, Window)]
                ELSE hist[c]]
  /\ UNCHANGED <<build, req, sema, logVars, chainVars>>

\* another user of the shared store overwrites a client's key (SET drops
\* the expiry)
ForeignSet(c) ==
  /\ redis[c] # [val |-> Garbage, ttl |-> NoExpiry]
  /\ redis' = [redis EXCEPT ![c] = [val |-> Garbage, ttl |-> NoExpiry]]
  /\ hist' = [hist EXCEPT ![c].foreign = TRUE, ![c].clean = FALSE,
                          ![c].age = IF Exists(c) THEN @ ELSE 0]
  /\ UNCHANGED <<build, req, sema, logVars, chainVars>>

----------------------------------------------------------------------------
(* Behind the limiter: logging middleware, correlator, recovery, route     *)
(* handlers, then the log call after c.Next() returned.                    *)

\* c.Next() of the limiter: the rest of the chain runs; a panic of a route
\* handler is recovered by gin.Recovery, which answers 500
Handler(r) ==
  /\ req[r].pc = "next"
  /\ \E out \in {"ok", "panic"} :
       req' = [req EXCEPT ![r].pc = "log", ![r].ran = TRUE,
                          ![r].status = IF req[r].status # 0 THEN req[r].status
                                        ELSE IF out = "ok" THEN 200 ELSE 500,
                          ![r].by = IF req[r].status # 0 THEN req[r].by
                                    ELSE IF out = "ok" THEN "handler" ELSE "recovery"]
  /\ UNCHANGED <<build, sema, redis, hist, logVars, chainVars>>

\* esLogger.WithContext after c.Next(): non-blocking send; a send on the
\* channel Close() has closed panics, and nothing above recovers it
LogEnqueue(r) ==
  /\ req[r].pc = "log"
  /\ ~req[r].skip
  /\ \E out \in {"queued", "dropped", "panic"} :
       req' = [req EXCEPT ![r].pc = "defer",
                          ![r].logged = IF out = "panic" THEN "no" ELSE out,
                          ![r].panic = (out = "panic")]
  /\ UNCHANGED <<build, sema, redis, hist, logVars, chainVars>>

----------------------------------------------------------------------------
(* The chain behind the limiter, step by step: LoggerMiddleware (before    *)
(* c.Next()), RequestIDMiddleware, gin.Recovery, the route with its Auth   *)
(* middleware, the route handler.                                          *)

\* uuid.New().String(): the n-th id generated; ids a client sends are taken
\* from another alphabet (a random uuid meets no id that exists)
UuidSame(n) == <<"u">>

Uuid(n) == <<"u">> \o Itoa(n)

\* values of an inbound X-Request-ID header; <<>> is an absent or empty one
Inbound == {<<>>, <<"a">>}

\* LoggerMiddleware up to c.Next() and RequestIDMiddleware: each reads the
\* inbound header and, when it is empty, generates an id and sets it as the
\* response header; each stores its id as request_id
Correlate(r, inb, skip) ==
  /\ req[r].pc = "next"
  /\ skip => ~req[r].swagger
  /\ LET gen1 == ~skip /\ inb = <<>>
         n1 == IF gen1 THEN uuids + 1 ELSE uuids
         id1 == IF gen1 THEN Uuid(n1) ELSE inb
         gen2 == inb = <<>>
         n2 == IF gen2 THEN n1 + 1 ELSE n1
         id2 == IF gen2 THEN Uuid(n2) ELSE inb
     IN /\ n2 <= MaxUuids
        /\ uuids' = n2
        /\ req' = [req EXCEPT ![r].pc = "route",
                              ![r].inbound = inb,
                              ![r].skip = skip,
                              ![r].logId = IF skip THEN <<>> ELSE id1,
                              ![r].hdrId = IF gen2 THEN id2 ELSE <<>>,
                              ![r].rid = id2,
                              ![r].ev = IF skip THEN <<"id">>
                                        ELSE <<"id", "body", "wrap", "id">>]
  /\ UNCHANGED <<build, sema, redis, hist, logVars, jwt, capture, search, boot>>

\* no route matches the path (none is registered at a SkipPath): 404
NoRoute(r) ==
  /\ req[r].pc = "route"
  /\ ~req[r].swagger
  /\ req' = [req EXCEPT ![r].pc = "log", ![r].route = "noroute",
                        ![r].status = 404, ![r].by = "router"]
  /\ UNCHANGED <<build, sema, redis, hist, logVars, chainVars>>

\* a route without Auth in its chain (/auth/login, /healthcheck/, ...)
Public(r) ==
  /\ req[r].pc = "route"
  /\ ~req[r].skip
  /\ req' = [req EXCEPT ![r].pc = "handler", ![r].route = "public"]
  /\ UNCHANGED <<build, sema, redis, hist, logVars, chainVars>>

JwtBuilds == {"jwt.go", "part_010"}

\* os.Getenv("JWT_SECRET")
Secret == "JWT_SECRET"

\* time.Now() when jwt.Parse validates the claims
Now == 2

\* the tokens a client may present: signing method, signing key, claims
Token ==
  [t \in {"t_admin", "t_support", "t_norole", "t_expired", "t_atexp", "t_noexp",
          "t_forged", "t_none"} |->
     CASE t = "t_admin" ->
            [alg |-> "HS256", key |-> Secret,
             claims |-> [has |-> {"user_id", "role", "exp"},
                         user_id |-> 1, role |-> 1, exp |-> Now + 1]]
       [] t = "t_support" ->
            [alg |-> "HS256", key |-> Secret,
             claims |-> [has |-> {"user_id", "role", "exp"},
                         user_id |-> 2, role |-> 3, exp |-> Now + 1]]
       [] t = "t_norole" ->
            [alg |-> "HS256", key |-> Secret,
             claims |-> [has |-> {"user_id", "exp"},
                         user_id |-> 3, role |-> 0, exp |-> Now + 1]]
       [] t = "t_expired" ->
            [alg |-> "HS256", key |-> Secret,
             claims |-> [has |-> {"user_id", "role", "exp"},
                         user_id |-> 1, role |-> 1, exp |-> Now - 1]]
       [] t = "t_atexp" ->
            [alg |-> "HS256", key |-> Secret,
             claims |-> [has |-> {"user_id", "role", "exp"},
                         user_id |-> 2, role |-> 3, exp |-> Now]]
       [] t = "t_noexp" ->
            [alg |-> "HS256", key |-> Secret,
             claims |-> [has |-> {"user_id", "role"},
                         user_id |-> 1, role |-> 1, exp |-> 0]]
       [] t = "t_forged" ->
            [alg |-> "HS256", key |-> "other",
             claims |-> [has |-> {"user_id", "role", "exp"},
                         user_id |-> 1, role |-> 1, exp |-> Now + 1]]
       [] t = "t_none" ->
            [alg |-> "none", key |-> "",
             claims |-> [has |-> {"user_id", "role", "exp"},
                         user_id |-> 1, role |-> 1, exp |-> Now + 1]]]

\* Authorization headers: sequences of words and single spaces
AuthHeaders ==
  {<<>>}
    \cup {<<"Bearer", " ", t>> : t \in DOMAIN Token}
    \cup {<<"bearer", " ", "t_admin">>, <<"BEARER", " ", "t_support">>,
          <<"Basic", " ", "t_admin">>, <<"t_admin">>, <<"Bearer", "t_admin">>,
          <<"Bearer", " ", " ", "t_admin">>, <<"Bearer", " ">>,
          <<"Bearer", " ", "t_admin", " ", "t_support">>}

\* strings.Split(token, " ")
RECURSIVE Split(_)
Split(h) ==
  IF h = <<>> THEN << <<>> >>
  ELSE LET rest == Split(Tail(h))
       IN IF Head(h) = " " THEN << <<>> >> \o rest
          ELSE << <<Head(h)>> \o Head(rest) >> \o Tail(rest)

\* strings.ToLower
UpperLetters == <<"A", "C", "K", "P", "X">>

LowerLetters == <<"a", "c", "k", "p", "x">>

Lower(w) ==
  CASE w = "Bearer" -> "bearer" [] w = "BEARER" -> "bearer"
    [] w = "Basic" -> "basic"
    [] \E i \in 1..Len(UpperLetters) : UpperLetters[i] = w ->
         LowerLetters[CHOOSE i \in 1..Len(UpperLetters) : UpperLetters[i] = w]
    [] OTHER -> w

ToLower(part) == [i \in 1..Len(part) |-> Lower(part[i])]


\* len(parts) != 2 || strings.ToLower(parts[0]) != "bearer", negated
BearerFormatLax(parts) == Len(parts) >= 2 /\ ToLower(parts[1]) = <<"bearer">>

BearerFormat(parts) == Len(parts) = 2 /\ ToLower(parts[1]) = <<"bearer">>

\* MapClaims.Valid: an exp claim that is absent (or 0) is not checked,
\* otherwise the token is valid while now <= exp
ClaimsValidNoExp(claims) == TRUE

ClaimsValid(claims) ==
  ("exp" \in claims.has /\ claims.exp # 0) => Now <= claims.exp

\* VerifyToken: jwt.Parse with a key function that accepts HMAC methods only
\* and hands out the secret; the token string must be one well-formed token
VerifyToken(part) ==
  /\ Len(part) = 1
  /\ part[1] \in DOMAIN Token
  /\ Token[part[1]].alg = "HS256"
  /\ Token[part[1]].key = Secret
  /\ ClaimsValid(Token[part[1]].claims)

\* DecodeTokenJWT: [ok, claims]
DecodeTokenJWT(part) ==
  IF VerifyToken(part)
  THEN [ok |-> TRUE, claims |-> Token[part[1]].claims]
  ELSE [ok |-> FALSE, claims |-> NoClaims]

\* claims["role"] == nil is checked by the build of part_010 only
RoleMissing(claims) == jwt = "part_010" /\ "role" \notin claims.has

\* the comparison of the role with minAccesScope is commented out
ScopeOkEnforced(role, minAccesScope) == role <= minAccesScope

ScopeOk(role, minAccesScope) == TRUE

AuthRejectNoLog(q, h, m) ==
  [q EXCEPT !.pc = "defer", !.route = "protected", !.authz = h, !.minScope = m,
            !.auth = "401", !.status = 401, !.by = "auth"]

\* c.AbortWithStatusJSON(http.StatusUnauthorized, authError); return
AuthReject(q, h, m) ==
  [q EXCEPT !.pc = "log", !.route = "protected", !.authz = h, !.minScope = m,
            !.auth = "401", !.status = 401, !.by = "auth"]

AuthForbidden(q, h, m) ==
  [q EXCEPT !.pc = "log", !.route = "protected", !.authz = h, !.minScope = m,
            !.auth = "403", !.status = 403, !.by = "auth"]

\* c.Set("currentUser", claims); c.Next()
AuthAcceptNoSet(q, h, m, claims) ==
  [q EXCEPT !.pc = "handler", !.route = "protected", !.authz = h,
            !.minScope = m, !.auth = "pass"]

AuthAccept(q, h, m, claims) ==
  [q EXCEPT !.pc = "handler", !.route = "protected", !.authz = h,
            !.minScope = m, !.auth = "pass", !.user = claims]

\* the Auth middleware of a protected route group
Auth(r, minAccesScope, h) ==
  /\ req[r].pc = "route"
  /\ ~req[r].skip
  /\ ~req[r].swagger
  /\ LET parts == Split(h)
         d == DecodeTokenJWT(parts[2])
         q == req[r]
         m == minAccesScope
     IN req' = [req EXCEPT ![r] =
                  IF h = <<>> THEN AuthReject(q, h, m)
                  ELSE IF ~BearerFormat(parts) THEN AuthReject(q, h, m)
                  ELSE IF ~d.ok THEN AuthReject(q, h, m)
                  ELSE IF RoleMissing(d.claims) THEN AuthReject(q, h, m)
                  ELSE IF ~ScopeOk(d.claims.role, m) THEN AuthForbidden(q, h, m)
                  ELSE AuthAccept(q, h, m, d.claims)]
  /\ UNCHANGED <<build, sema, redis, hist, logVars, chainVars>>

\* minAccesScope values of the route groups: 1 ADMIN, 2 MANAGER, 3 SUPPORT;
\* the Auth() of jwt.go takes none
Scopes == IF jwt = "part_010" THEN {1, 2, 3} ELSE {0}

\* the route handler; it reads currentUser from its context; a panic is
\* recovered by gin.Recovery, which answers 500
RouteHandler(r) ==
  /\ req[r].pc = "handler"
  /\ \E out \in {"ok", "panic"} :
       req' = [req EXCEPT ![r].pc = "log", ![r].ran = TRUE,
                          ![r].runs = @ + 1,
                          ![r].seen = req[r].user,
                          ![r].status = IF out = "ok" THEN 200 ELSE 500,
                          ![r].by = IF out = "ok" THEN "handler" ELSE "recovery"]
  /\ UNCHANGED <<build, sema, redis, hist, logVars, chainVars>>

\* LoggerMiddleware on a SkipPath: c.Next(); return, no entry
LogSkip(r) ==
  /\ req[r].pc = "log"
  /\ req[r].skip
  /\ req' = [req EXCEPT ![r].pc = "defer"]
  /\ UNCHANGED <<build, sema, redis, hist, logVars, chainVars>>

----------------------------------------------------------------------------
(* Log pipeline: producers (log calls), the bounded channel, the single    *)
(* worker processLogs with its batch, and Close().                         *)

Kinds == {"Logger", "FileLogger", "ElasticsearchLogger"}

Levels == {"DEBUG", "INFO", "FATAL"}

\* shouldLog with Config.LogLevel = LevelInfo
LevelRank(l) == CASE l = "DEBUG" -> 0 [] l = "INFO" -> 1 [] l = "FATAL" -> 4

ShouldLog(l) == LevelRank(l) >= LevelRank("INFO")

NoCall == [id |-> 0, level |-> "INFO", outcome |-> "none"]

LogInit ==
  /\ kind \in Kinds
  /\ logChannel = <<>>
  /\ chClosed = FALSE
  /\ batch = <<>>
  /\ sink = <<>>
  \* NewLogger of pkg/logger opens the file, and may fail to; the writer of
  \* FileLogger opens its file on the first write
  /\ needOpen \in IF kind = "Logger" THEN BOOLEAN
                  ELSE IF kind = "FileLogger" THEN {TRUE} ELSE {FALSE}
  /\ sinkUp \in BOOLEAN
  /\ worker = "running"
  /\ closer = "none"
  /\ calls = 0
  /\ last = NoCall
  /\ pre = {}
  /\ sinkFailed = FALSE
  /\ flushes = 0

\* select { case l.logChannel <- entry: default: }: [ch, outcome]
SendUnbounded(ch, e) == [ch |-> Append(ch, e), outcome |-> "queued"]

Send(ch, e) ==
  IF Len(ch) < BufferSize
  THEN [ch |-> Append(ch, e), outcome |-> "queued"]
  ELSE [ch |-> ch, outcome |-> "dropped"]

\* Debug / Info / Fatal / WithContext -> log(entry)
LogCall(level) ==
  /\ calls < MaxCalls
  /\ calls' = calls + 1
  /\ LET e == [id |-> calls + 1, level |-> level]
         snd == Send(logChannel, e)
     IN IF ~ShouldLog(level)
        THEN /\ last' = [id |-> e.id, level |-> level, outcome |-> "filtered"]
             /\ UNCHANGED <<logChannel, pre>>
        ELSE IF chClosed
        THEN /\ last' = [id |-> e.id, level |-> level, outcome |-> "panic"]
             /\ UNCHANGED <<logChannel, pre>>
        ELSE /\ logChannel' = snd.ch
             /\ last' = [id |-> e.id, level |-> level, outcome |-> snd.outcome]
             /\ pre' = IF snd.outcome = "queued" /\ closer = "none"
                       THEN pre \cup {e.id} ELSE pre
  /\ UNCHANGED <<kind, chClosed, batch, sink, needOpen, sinkUp, worker, closer,
                 sinkFailed, pipeVars, chainVars, flushes>>

\* the context the bulk request of ElasticsearchLogger.sendBatch carries is
\* l.ctx, which Close() cancels
CtxCancelled == closer # "none"

\* the flush closure of processLogs: [batch, sink, needOpen, failed]
Flush(b) ==
  IF b = <<>>
  THEN [batch |-> b, sink |-> sink, needOpen |-> needOpen, failed |-> FALSE]
  ELSE IF kind = "Logger"
  THEN IF needOpen /\ ~sinkUp
       \* initLogFile failed: return before the batch is cleared
       THEN [batch |-> b, sink |-> sink, needOpen |-> TRUE, failed |-> TRUE]
       ELSE [batch |-> <<>>,
             sink |-> IF sinkUp THEN sink \o b ELSE sink,
             needOpen |-> FALSE, failed |-> ~sinkUp]
  ELSE IF kind = "FileLogger"
  \* writeEntry fails per entry (diagnostic), the batch is reset regardless
  THEN [batch |-> <<>>,
        sink |-> IF sinkUp THEN sink \o b ELSE sink,
        needOpen |-> IF sinkUp THEN FALSE ELSE needOpen,
        failed |-> ~sinkUp]
  \* sendBatch: the bulk request fails when its context is cancelled
  ELSE [batch |-> <<>>,
        sink |-> IF sinkUp /\ ~CtxCancelled THEN sink \o b ELSE sink,
        needOpen |-> needOpen,
        failed |-> ~sinkUp]

ApplyFlush(b) ==
  /\ batch' = Flush(b).batch
  /\ sink' = Flush(b).sink
  /\ needOpen' = Flush(b).needOpen
  /\ sinkFailed' = (sinkFailed \/ Flush(b).failed)

\* len(batch) >= l.config.BatchSize
BatchFullGt(b) == Len(b) > BatchSize

BatchFull(b) == Len(b) >= BatchSize

WorkerRecvPrepend ==
  /\ worker = "running"
  /\ logChannel # <<>>
  /\ LET e == Head(logChannel)
         b == <<e>> \o batch
     IN /\ logChannel' = Tail(logChannel)
        /\ IF BatchFull(b) \/ (kind = "Logger" /\ e.level = "FATAL")
           THEN ApplyFlush(b)
           ELSE /\ batch' = b
                /\ UNCHANGED <<sink, needOpen, sinkFailed>>
  /\ UNCHANGED <<kind, chClosed, sinkUp, worker, closer, calls, last, pre, pipeVars, chainVars, flushes>>

\* case entry := <-l.logChannel
WorkerRecv ==
  /\ worker = "running"
  /\ logChannel # <<>>
  /\ LET e == Head(logChannel)
         b == Append(batch, e)
     IN /\ logChannel' = Tail(logChannel)
        /\ IF BatchFull(b) \/ (kind = "Logger" /\ e.level = "FATAL")
           THEN ApplyFlush(b)
           ELSE /\ batch' = b
                /\ UNCHANGED <<sink, needOpen, sinkFailed>>
  /\ UNCHANGED <<kind, chClosed, sinkUp, worker, closer, calls, last, pre, pipeVars, chainVars, flushes>>

\* case <-ticker.C
WorkerTick ==
  /\ worker = "running"
  /\ batch # <<>>
  /\ ApplyFlush(batch)
  /\ UNCHANGED <<kind, logChannel, chClosed, sinkUp, worker, closer, calls, last,
                 pre, pipeVars, chainVars, flushes>>

\* case <-l.done / <-l.ctx.Done(): final flush, then the worker returns
WorkerDone ==
  /\ worker = "running"
  /\ closer # "none"
  /\ ApplyFlush(batch)
  /\ worker' = "exited"
  /\ UNCHANGED <<kind, logChannel, chClosed, sinkUp, closer, calls, last, pre,
                 pipeVars, chainVars, flushes>>

\* Close(): close(l.done) / l.cancel(), then the caller blocks in wg.Wait()
CloseBegin ==
  /\ closer = "none"
  /\ closer' = "wait"
  /\ UNCHANGED <<kind, logChannel, chClosed, batch, sink, needOpen, sinkUp, worker,
                 calls, last, pre, sinkFailed, pipeVars, chainVars, flushes>>

\* wg.Wait() returns once the worker has exited; the channel and the file
\* are closed and Close() returns
CloseEndNoWait ==
  /\ closer = "wait"
  /\ closer' = "returned"
  /\ chClosed' = TRUE
  /\ UNCHANGED <<kind, logChannel, batch, sink, needOpen, sinkUp, worker, calls,
                 last, pre, sinkFailed, pipeVars, chainVars, flushes>>

CloseEnd ==
  /\ closer = "wait"
  /\ worker = "exited"
  /\ closer' = "returned"
  /\ chClosed' = TRUE
  /\ UNCHANGED <<kind, logChannel, batch, sink, needOpen, sinkUp, worker, calls,
                 last, pre, sinkFailed, pipeVars, chainVars, flushes>>

\* the entry Flush() puts into the channel: pkg/logger sends a "__FLUSH__"
\* entry of level DEBUG, FileLogger sends LogEntry{} (no id, no level)
FlushEntry ==
  [id |-> 0, level |-> IF kind = "Logger" THEN "DEBUG" ELSE ""]

\* Flush(): a non-blocking send that bypasses shouldLog (pkg/logger,
\* FileLogger), nothing but a sleep in ElasticsearchLogger; a send on the
\* closed channel panics
FlushCall ==
  /\ flushes < MaxFlushes
  /\ flushes' = flushes + 1
  /\ logChannel' = IF kind = "ElasticsearchLogger" \/ chClosed THEN logChannel
                   ELSE Send(logChannel, FlushEntry).ch
  /\ UNCHANGED <<kind, chClosed, batch, sink, needOpen, sinkUp, worker, closer,
                 calls, last, pre, sinkFailed, pipeVars, chainVars>>

\* the sink stops or resumes accepting writes (disk, index)
SinkToggle ==
  /\ sinkUp' = ~sinkUp
  /\ UNCHANGED <<kind, logChannel, chClosed, batch, sink, needOpen, worker, closer,
                 calls, last, pre, sinkFailed, pipeVars, chainVars, flushes>>

\* a new day begins or the file reaches MaxFileSize: the next write rotates
Rollover ==
  /\ kind # "ElasticsearchLogger"
  /\ ~needOpen
  /\ needOpen' = TRUE
  /\ UNCHANGED <<kind, logChannel, chClosed, batch, sink, sinkUp, worker, closer,
                 calls, last, pre, sinkFailed, pipeVars, chainVars, flushes>>

----------------------------------------------------------------------------
Next ==
  \/ \E r \in Reqs, c \in Clients :
       ArriveCancelled(r, c) \/ ArriveFast(r, c) \/ ArriveWait(r, c)
  \/ \E r \in Reqs :
       \/ WaitCancelled(r) \/ AcquireReturn(r) \/ AcquireReturnCancelled(r)
       \/ RlBypass(r) \/ RlGet(r, FALSE) \/ RlSet(r) \/ RlTTL(r) \/ RlIncr(r)
       \/ Handler(r) \/ LogEnqueue(r) \/ Release(r)
  \/ Tick
  \/ \E c \in Clients : ForeignSet(c)

vars == <<pipeVars, logVars, chainVars>>

Spec == Init /\ [][Next]_vars

\* The limiter under concurrency: the gate is as wide as the number of
\* connections (as with the default capacity of 10), so it never blocks.
InitRace ==
  /\ build \in Builds
  /\ req = [r \in 1..NumReq |-> Fresh(CHOOSE c \in Clients : TRUE)]
  /\ sema = [size |-> NumReq, cur |-> 0, waiters |-> <<>>]
  /\ redis = [c \in Clients |-> Absent]
  /\ hist = [c \in Clients |-> HistInit]
  /\ LogIdle
  /\ ChainIdle

NextRace ==
  \/ \E r \in Reqs, c \in Clients : ArriveCancelled(r, c) \/ ArriveFast(r, c)
  \/ \E r \in Reqs :
       \/ RlBypass(r) \/ RlGet(r, FALSE) \/ RlSet(r) \/ RlTTL(r) \/ RlIncr(r)
       \/ Handler(r) \/ LogEnqueue(r) \/ Release(r)
  \/ Tick
  \/ \E c \in Clients : ForeignSet(c)

SpecRace == InitRace /\ [][NextRace]_vars

\* The whole chain for the requests of one window: gate, limiter,
\* correlator, Auth, route handler, log call.
InitChain ==
  /\ build \in Builds
  /\ req = [r \in 1..NumReq |-> Fresh(CHOOSE c \in Clients : TRUE)]
  /\ sema = [size |-> Capacity, cur |-> 0, waiters |-> <<>>]
  /\ redis = [c \in Clients |-> Absent]
  /\ hist = [c \in Clients |-> HistInit]
  /\ LogIdle
  /\ jwt \in JwtBuilds
  /\ uuids = 0
  /\ capture = CaptureIdle
  /\ search = SearchIdle
  /\ boot = NoBoot

NextChain ==
  \/ \E r \in Reqs, c \in Clients :
       ArriveCancelled(r, c) \/ ArriveFast(r, c) \/ ArriveWait(r, c)
  \/ \E r \in Reqs :
       \/ WaitCancelled(r) \/ AcquireReturn(r) \/ AcquireReturnCancelled(r)
       \/ RlBypass(r) \/ (\E sw \in BOOLEAN : RlGet(r, sw)) \/ RlSet(r) \/ RlTTL(r) \/ RlIncr(r)
       \/ \E inb \in Inbound, skip \in BOOLEAN : Correlate(r, inb, skip)
       \/ NoRoute(r) \/ Public(r)
       \/ \E m \in Scopes, h \in AuthHeaders : Auth(r, m, h)
       \/ RouteHandler(r) \/ LogEnqueue(r) \/ LogSkip(r) \/ Release(r)

SpecChain == InitChain /\ [][NextChain]_vars

\* Requests that carry a correlation id and a bearer token, behind a gate as
\* wide as the number of connections: the Auth middleware of several requests
\* at once.
InitAuth ==
  /\ build \in Builds
  /\ req = [r \in 1..NumReq |-> Fresh(CHOOSE c \in Clients : TRUE)]
  /\ sema = [size |-> NumReq, cur |-> 0, waiters |-> <<>>]
  /\ redis = [c \in Clients |-> Absent]
  /\ hist = [c \in Clients |-> HistInit]
  /\ LogIdle
  /\ jwt \in JwtBuilds
  /\ uuids = 0
  /\ capture = CaptureIdle
  /\ search = SearchIdle
  /\ boot = NoBoot

BearerHeaders == {<<"Bearer", " ", t>> : t \in DOMAIN Token}

NextAuth ==
  \/ \E r \in Reqs, c \in Clients : ArriveCancelled(r, c) \/ ArriveFast(r, c)
  \/ \E r \in Reqs :
       \/ RlBypass(r) \/ RlGet(r, FALSE) \/ RlSet(r) \/ RlTTL(r) \/ RlIncr(r)
       \/ Correlate(r, <<"a">>, FALSE)
       \/ NoRoute(r) \/ Public(r)
       \/ \E m \in Scopes, h \in BearerHeaders : Auth(r, m, h)
       \/ RouteHandler(r) \/ LogEnqueue(r) \/ Release(r)

SpecAuth == InitAuth /\ [][NextAuth]_vars


\* The log pipeline on its own: producers, worker and Close().
InitLog ==
  /\ build = "part_011"
  /\ req = [r \in 1..NumReq |-> Fresh(CHOOSE c \in Clients : TRUE)]
  /\ sema = [size |-> Capacity, cur |-> 0, waiters |-> <<>>]
  /\ redis = [c \in Clients |-> Absent]
  /\ hist = [c \in Clients |-> HistInit]
  /\ LogInit
  /\ ChainIdle

NextLog ==
  \/ \E level \in Levels : LogCall(level)
  \/ WorkerRecv
  \/ WorkerTick
  \/ WorkerDone
  \/ CloseBegin
  \/ CloseEnd
  \/ SinkToggle
  \/ Rollover
  \/ FlushCall

SpecLog == InitLog /\ [][NextLog]_vars

\* The worker goroutine and the goroutine in Close() are scheduled: a select
\* whose done case is ready takes it eventually, and wg.Wait() returns once
\* the worker has exited.
SpecLogFair == SpecLog /\ WF_vars(WorkerDone) /\ WF_vars(CloseEnd)

----------------------------------------------------------------------------
(* Properties *)

Holders == {r \in Reqs : Holding(r)}

Quiescent == \A r \in Reqs : req[r].pc \in {"idle", "done"}

\* C1: the number of requests past sema.Acquire and before sema.Release
\* never exceeds the capacity of the gate.
GateCapacity == Cardinality(Holders) <= sema.size

GateCapacityWitness ==
  /\ Cardinality(Holders) = sema.size
  /\ \E r \in Reqs : req[r].pc = "waiting"

\* C2: a request that acquired a slot has released it exactly once when it is
\* over, whatever the exit path; a request whose Acquire failed has not
\* released; the tokens taken are those of the requests in flight, so all
\* slots are free again once every request has finished.
ReleaseExactlyOnce ==
  /\ \A r \in Reqs :
       /\ req[r].pc = "done" => req[r].rel = (IF req[r].by = "gate" THEN 0 ELSE 1)
       /\ req[r].pc # "done" => req[r].rel = 0
  /\ sema.cur = Cardinality({r \in Reqs : Holding(r) \/ req[r].pc = "granted"})
  /\ Quiescent => sema.cur = 0

ReleaseExactlyOnceWitness ==
  /\ Quiescent
  /\ \E r \in Reqs : req[r].rel = 1
  /\ \E r \in Reqs : req[r].pc = "done" /\ req[r].by = "gate"

\* C3: a request rejected by the gate is answered 429 with Retry-After and
\* the X-RateLimit-* headers and reaches no later component: no store
\* operation, no handler, no log entry.
GateRejectionResponse ==
  \A r \in Reqs :
    req[r].by = "gate" =>
      /\ req[r].pc = "done"
      /\ req[r].status = 429
      /\ RateLimitHeaders \subseteq req[r].hdrs
      /\ ~req[r].ops /\ ~req[r].ran /\ req[r].logged = "no"

\* C4: in a window whose requests went through checkRateLimit one after
\* another (and the store answered), a request is admitted while fewer than
\* MaxRequests were admitted in the window, and otherwise rejected with 429
\* and a Retry-After equal to the remaining TTL, which is within 1..Window.
SequentialLimit ==
  [][\A r \in Reqs :
       LET c == req[r].ip IN
         (req[r].lim = "none" /\ req'[r].lim \in {"pass", "429", "500"} /\ hist'[c].clean)
           => IF hist[c].admitted < MaxRequests
              THEN req'[r].lim = "pass" /\ req'[r].pc = "next"
              ELSE /\ req'[r].lim = "429" /\ req'[r].status = 429
                   /\ req'[r].pc = "defer"
                   /\ "Retry-After" \in req'[r].hdrs
                   /\ req'[r].retry = redis[c].ttl
                   /\ req'[r].retry \in 1..Window]_vars

SequentialLimitWitness ==
  \E r \in Reqs :
    /\ req[r].lim = "429"
    /\ hist[req[r].ip].clean
    /\ hist[req[r].ip].admitted = MaxRequests
    /\ req[r].retry \in 1..Window

\* C5: once a full window length has elapsed since a client's window was
\* opened, the counter has expired (so the next request opens a new window
\* and is admitted).
WindowExpires ==
  \A c \in Clients : (Exists(c) /\ ~hist[c].foreign) => hist[c].age < Window

\* C6: the requests admitted for one client within one window never exceed
\* maxRequests + K - 1, K the number of requests that can be inside
\* checkRateLimit at once.
BoundedOvershoot ==
  \A c \in Clients :
    (~hist[c].foreign /\ hist[c].age < Window)
      => hist[c].admitted <= MaxRequests + sema.size - 1

\* C7: a request that met a failing store operation or a stored value that
\* is no integer is answered 500 by the limiter and aborted: the handler
\* chain does not run for it and nothing is logged for it.
FailClosed ==
  \A r \in Reqs :
    req[r].err =>
      /\ req[r].status = 500 /\ req[r].by = "limiter"
      /\ req[r].pc = "defer"
      /\ ~req[r].ran /\ req[r].logged = "no"

FailClosedWitness ==
  \E r \in Reqs :
    req[r].err /\ req[r].status = 500 /\ redis[req[r].ip].val = Garbage

SinkIds == {sink[i].id : i \in 1..Len(sink)}

\* C8: when Close() has returned and the sink was healthy, every entry that
\* was accepted into the queue before Close() was called is in the sink.
ShutdownDelivers ==
  (closer = "returned" /\ ~sinkFailed) => pre \subseteq SinkIds

\* C9: Close() returns only after the worker has exited (its final flush
\* done), the sink is not written after Close() has returned, and a Close()
\* that was called returns.
CloseWaitsForWorker ==
  /\ [](closer = "returned" => worker = "exited")
  /\ [][closer = "returned" => sink' = sink]_vars
  /\ (closer = "wait" ~> closer = "returned")

CloseWaitsForWorkerWitness ==
  closer = "returned" /\ worker = "exited" /\ sink # <<>>

\* C10: a log call made while the logger runs completes in one step without
\* the worker: an entry that passes the level filter is appended when the
\* queue holds fewer than BufferSize entries and dropped, the queue unchanged,
\* when it is full; the queue never holds more than BufferSize entries.
NonBlockingEnqueue ==
  /\ [](Len(logChannel) <= BufferSize)
  /\ [][(calls' # calls /\ ~chClosed) =>
          LET e == [id |-> last'.id, level |-> last'.level] IN
            IF ~ShouldLog(e.level)
            THEN logChannel' = logChannel /\ last'.outcome = "filtered"
            ELSE IF Len(logChannel) < BufferSize
            THEN logChannel' = Append(logChannel, e) /\ last'.outcome = "queued"
            ELSE logChannel' = logChannel /\ last'.outcome = "dropped"]_vars

NonBlockingEnqueueWitness ==
  last.outcome = "dropped" /\ Len(logChannel) = BufferSize /\ worker = "running"

\* C11: the worker flushes as soon as its batch reaches BatchSize entries and
\* on every tick that finds the batch non-empty: while no flush has met a
\* failing sink the batch stays below BatchSize, and, absent shutdown and
\* with the sink accepting writes, a receive that fills the batch and a tick
\* both move the whole batch, in order, to the sink and leave it empty.
DualFlushTrigger ==
  /\ [](~sinkFailed => Len(batch) < BatchSize)
  /\ [][(worker = "running" /\ worker' = "running" /\ closer = "none" /\ sinkUp) =>
          /\ Len(logChannel') < Len(logChannel) =>
                LET b == Append(batch, Head(logChannel)) IN
                  IF batch' = <<>>
                  THEN sink' = sink \o b
                  ELSE batch' = b /\ sink' = sink /\ Len(b) < BatchSize
          /\ (logChannel' = logChannel /\ batch' # batch) =>
                batch' = <<>> /\ sink' = sink \o batch]_vars

DualFlushTriggerWitness ==
  /\ kind = "FileLogger" /\ closer = "none" /\ ~sinkFailed
  /\ Len(sink) = BatchSize + 1 /\ batch = <<>>

\* C12: every entry reaches the sink at most once, and the first flush that
\* meets a sink that does not accept the write discards its whole batch: the
\* sink is left as it was and the worker's batch is empty afterwards, so
\* nothing of it is left for a later flush.
NoRetry ==
  /\ [](\A i, j \in 1..Len(sink) : sink[i].id = sink[j].id => i = j)
  /\ [][(~sinkFailed /\ sinkFailed') => (batch' = <<>> /\ sink' = sink)]_vars

\* the Auth middleware has given its verdict on request r
Judged(r) == req[r].route = "protected" /\ req[r].auth # "none"

\* the token of a header of the form <scheme> <token>
Presented(r) == Token[req[r].authz[3]]

Rejected401(r) ==
  /\ req[r].auth = "401" /\ req[r].status = 401 /\ req[r].by = "auth"
  /\ req[r].pc \in {"log", "defer"}
  /\ ~req[r].ran /\ req[r].runs = 0
  /\ req[r].user = NoClaims /\ req[r].seen = NoClaims

\* C13: on a protected route, a request without Authorization header, or
\* whose header is not exactly two space-separated parts the first of which
\* is "bearer" whatever its case, is answered 401 and aborted; the route
\* handler does not run.
AuthRejectsMalformed ==
  \A r \in Reqs :
    (/\ Judged(r)
     /\ \/ req[r].authz = <<>>
        \/ Len(Split(req[r].authz)) # 2
        \/ ToLower(Split(req[r].authz)[1]) # <<"bearer">>)
      => Rejected401(r)

AuthRejectsMalformedWitness ==
  \E r \in Reqs :
    /\ Judged(r) /\ Rejected401(r)
    /\ req[r].authz = <<"Bearer", " ", "t_admin", " ", "t_support">>

RoleRequired ==
  \A r \in Reqs :
    (/\ Judged(r)
     /\ req[r].authz = <<"Bearer", " ", "t_norole">>)
      => Rejected401(r)

\* C16: when Auth accepts a token, the claims of that token are in the
\* request context (currentUser) before the handler runs, the handler runs
\* exactly once, and the claims it reads are those of the token the request
\* presented, whatever other requests are in flight.
ClaimsAttached ==
  \A r \in Reqs :
    req[r].auth = "pass" =>
      /\ req[r].user = Presented(r).claims
      /\ req[r].pc = "handler" => (req[r].runs = 0 /\ ~req[r].ran)
      /\ req[r].pc \in {"log", "defer"} =>
           (req[r].runs = 1 /\ req[r].seen = Presented(r).claims)
      /\ req[r].pc \in {"handler", "log", "defer"}

ClaimsAttachedWitness ==
  \E r, q \in Reqs :
    /\ req[r].auth = "pass" /\ req[q].auth = "pass"
    /\ req[r].pc = "log" /\ req[q].pc = "log"
    /\ req[r].seen.user_id = 1 /\ req[q].seen.user_id = 2

Correlated(r) ==
  \/ req[r].pc \in {"route", "handler", "log"}
  \/ req[r].pc = "defer" /\ req[r].lim \in {"pass", "bypass"}

\* C18: a request that carries a non-empty inbound X-Request-ID gets a
\* response whose X-Request-ID header is that value, and request_id in its
\* context is that value.
InboundEchoed ==
  \A r \in Reqs :
    (Correlated(r) /\ req[r].inbound # <<>>)
      => (req[r].hdrId = req[r].inbound /\ req[r].rid = req[r].inbound)

\* the ids generated so far
Issued == {Uuid(k) : k \in 1..uuids}

\* C19: for a request without inbound X-Request-ID that passes the
\* correlator, an id is generated that is non-empty and is the id of no
\* other request (none generated before, none sent by a client); it is the
\* X-Request-ID header of the response and request_id in the context.
FreshId ==
  /\ [](\A r \in Reqs :
          (Correlated(r) /\ req[r].inbound = <<>>) =>
            /\ req[r].rid # <<>>
            /\ req[r].hdrId = req[r].rid
            /\ req[r].rid \in Issued
            /\ \A q \in Reqs \ {r} : req[q].rid # req[r].rid)
  /\ [][\A r \in Reqs :
          (req[r].pc = "next" /\ req'[r].pc = "route" /\ req'[r].inbound = <<>>) =>
            /\ req'[r].rid \notin Issued
            /\ req'[r].rid \notin Inbound
            /\ \A q \in Reqs \ {r} : req'[r].rid \notin {req[q].rid, req[q].logId}]_vars

FreshIdWitness ==
  \E r \in Reqs :
    /\ Correlated(r) /\ req[r].inbound = <<>>
    /\ req[r].logId = Uuid(2) /\ req[r].rid = Uuid(3) /\ req[r].hdrId = Uuid(3)

\* C20: every response carries the X-Request-ID header: those of requests
\* with an inbound id and those the chain itself rejects (429 of the gate
\* and of the limiter, 500 of the limiter, 401 of Auth) included.
CorrelationHeaderAlways ==
  \A r \in Reqs : req[r].status # 0 => req[r].hdrId # <<>>

\* C21: for every logged request, the request id of its log entry
\* (HTTP.RequestID) is the request_id of the request context and the
\* X-Request-ID header of the response.
OneCorrelationId ==
  \A r \in Reqs :
    req[r].logged = "queued"
      => (req[r].logId = req[r].rid /\ req[r].logId = req[r].hdrId)

\* C22: a request rejected by the gate, by the limiter or by Auth has run no
\* route handler and has changed no state of the chain: it has not written
\* its client's counter.
RejectionsMutateNothing ==
  \A r \in Reqs :
    req[r].by \in {"gate", "limiter", "auth"} => (~req[r].ran /\ ~req[r].wrote)

\* position of the first occurrence of event e in a sequence, 0 if absent
First(s, e) ==
  IF \E i \in 1..Len(s) : s[i] = e
  THEN CHOOSE i \in 1..Len(s) : s[i] = e /\ \A j \in 1..(i - 1) : s[j] # e
  ELSE 0

UniqueEntryIds ==
  kind # "Logger" =>
    /\ \A i \in 1..Len(sink) : sink[i].id # 0
    /\ \A i, j \in 1..Len(sink) : sink[i].id = sink[j].id => i = j

----------------------------------------------------------------------------
(* LoggerMiddleware's capture of one request: the request body, the        *)
(* response body written through responseBodyWriter, and the headers.      *)
(* Bodies are sequences of bytes; a sentinel is a text no body here equals. *)

Bytes == {"a", "b"}

BytesUpTo(n) == UNION {[1..k -> Bytes] : k \in 0..n}

BodyTooLarge == <<"[BODY TOO LARGE]">>

ResponseTooLarge == <<"[RESPONSE TOO LARGE]">>

RequestBodyLt(bodyBytes) ==
  IF Len(bodyBytes) < MaxBodySize THEN bodyBytes ELSE BodyTooLarge

\* if len(bodyBytes) <= cfg.MaxBodySize { string(bodyBytes) } else sentinel
RequestBody(bodyBytes) ==
  IF Len(bodyBytes) <= MaxBodySize THEN bodyBytes ELSE BodyTooLarge

\* io.ReadAll(c.Request.Body): on success the body is replaced by a reader
\* over the bytes read; on a read error the body stays where the read
\* stopped and nothing is kept for the log.
ReadRequestBody(sent, err) ==
  /\ capture.phase = "start"
  /\ \E k \in 0..Len(sent) :
       capture' = [capture EXCEPT
         !.phase = "next",
         !.sent = sent,
         !.readErr = err,
         !.body = IF err THEN SubSeq(sent, k + 1, Len(sent)) ELSE sent,
         !.requestBody = IF err THEN <<>> ELSE RequestBody(sent)]
  /\ UNCHANGED <<pipeVars, logVars, jwt, uuids, search, boot>>

\* a downstream handler reads c.Request.Body to its end
ReadBody ==
  /\ capture.phase = "next"
  /\ ~capture.read
  /\ capture' = [capture EXCEPT !.read = TRUE, !.handlerBody = capture.body,
                                !.body = <<>>]
  /\ UNCHANGED <<pipeVars, logVars, jwt, uuids, search, boot>>

\* w.body.Len()+len(data) <= cap(w.body.Bytes()); the buffer is made with
\* capacity cfg.MaxBodySize and never grows, as only fitting writes reach it
Fits(buf, data) == Len(buf) + Len(data) <= MaxBodySize

\* responseBodyWriter.Write
Write(data) ==
  /\ capture.phase = "next"
  /\ capture.writes < MaxWrites
  /\ capture' = [capture EXCEPT
       !.writes = @ + 1,
       !.resp = @ \o data,
       !.buf = IF Fits(@, data) THEN @ \o data ELSE @,
       !.client = @ \o data]
  /\ UNCHANGED <<pipeVars, logVars, jwt, uuids, search, boot>>

\* if responseBodyBuf.Len() <= cfg.MaxBodySize { String() } else sentinel
ResponseBody(buf) ==
  IF Len(buf) <= MaxBodySize THEN buf ELSE ResponseTooLarge

\* header names, as net/http canonicalises them
HAuthorization ==
  <<"A", "u", "t", "h", "o", "r", "i", "z", "a", "t", "i", "o", "n">>

HCookie == <<"C", "o", "o", "k", "i", "e">>

HXApiKey == <<"X", "-", "A", "p", "i", "-", "K", "e", "y">>

HAccept == <<"A", "c", "c", "e", "p", "t">>

HeaderNames == {HAuthorization, HCookie, HXApiKey, HAccept}

HeaderValues == {<<"v">>, <<"v", "w">>}

HeaderMaps == UNION {[S -> HeaderValues] : S \in SUBSET HeaderNames}

\* cfg.ExcludedHeaders of setupLogger
CfgExcludedHeaders ==
  {<<"a", "u", "t", "h", "o", "r", "i", "z", "a", "t", "i", "o", "n">>,
   <<"c", "o", "o", "k", "i", "e">>,
   <<"x", "-", "a", "p", "i", "-", "k", "e", "y">>}

\* excludedHeaders[strings.ToLower(header)] = true
ExcludedHeaders == {ToLower(h) : h \in CfgExcludedHeaders}

ExcludedExact(name) == name \in ExcludedHeaders

\* excludedHeaders[strings.ToLower(name)]
Excluded(name) == ToLower(name) \in ExcludedHeaders

\* the header map of the log entry
Headers(header) ==
  [name \in {n \in DOMAIN header : ~Excluded(n) /\ Len(header[n]) > 0} |->
     header[name][1]]

\* names and values of custom log fields
FPassword == <<"P", "a", "s", "s", "w", "o", "r", "d">>

FUser == <<"u", "s", "e", "r">>

FComponent == <<"c", "o", "m", "p", "o", "n", "e", "n", "t">>

LogFieldMaps ==
  UNION {[S -> {"hunter2"}] : S \in (SUBSET {FPassword, FUser}) \ {{}}}

\* AddLogFields(c, fields) by a handler, a first time: c.Set("log_fields", fields)
AddLogFields(f) ==
  /\ capture.phase = "next"
  /\ capture.logFields = <<>>
  /\ capture' = [capture EXCEPT !.logFields = f]
  /\ UNCHANGED <<pipeVars, logVars, jwt, uuids, search, boot>>

\* Config.SensitiveFields of NewConfig
SensitiveFields ==
  {<<"p", "a", "s", "s", "w", "o", "r", "d">>, <<"t", "o", "k", "e", "n">>,
   <<"s", "e", "c", "r", "e", "t">>}

\* fields := {"component": "http_middleware"} plus the log_fields of the
\* context; WithContext sets entry.Fields = ctx.Fields and log() queues the
\* entry as it is
Fields(logFields) ==
  [n \in {FComponent} \cup DOMAIN logFields |->
     IF n \in DOMAIN logFields THEN logFields[n] ELSE "http_middleware"]

\* after c.Next(): the headers, the response body and the fields of the log
\* entry
LogRequest(header) ==
  /\ capture.phase = "next"
  /\ capture' = [capture EXCEPT
       !.phase = "done",
       !.header = header,
       !.headers = Headers(header),
       !.responseBody = ResponseBody(capture.buf),
       !.fields = Fields(capture.logFields)]
  /\ UNCHANGED <<pipeVars, logVars, jwt, uuids, search, boot>>

InitCapture ==
  /\ build = "part_011"
  /\ req = [r \in 1..NumReq |-> Fresh(CHOOSE c \in Clients : TRUE)]
  /\ sema = [size |-> Capacity, cur |-> 0, waiters |-> <<>>]
  /\ redis = [c \in Clients |-> Absent]
  /\ hist = [c \in Clients |-> HistInit]
  /\ LogIdle
  /\ ChainIdle

NextCapture ==
  \/ \E sent \in BytesUpTo(MaxBodySize + 1), err \in BOOLEAN :
       ReadRequestBody(sent, err)
  \/ ReadBody
  \/ \E data \in BytesUpTo(MaxBodySize + 1) : Write(data)
  \/ \E header \in HeaderMaps : LogRequest(header)

SpecCapture == InitCapture /\ [][NextCapture]_vars

\* C25: for any sequence of Write calls, the bytes sent to the client are the
\* full response; the logged response body equals the response when it is at
\* most MaxBodySize bytes, and is the sentinel "[RESPONSE TOO LARGE]" when
\* the response exceeds MaxBodySize.
ResponseCaptured ==
  capture.phase = "done" =>
    /\ capture.client = capture.resp
    /\ Len(capture.resp) <= MaxBodySize => capture.responseBody = capture.resp
    /\ Len(capture.resp) > MaxBodySize =>
         capture.responseBody = ResponseTooLarge

\* C26: once the middleware has read the request body, a downstream handler
\* reads exactly the bytes the client sent, whatever their number; the logged
\* request body is the body when it is at most MaxBodySize bytes long and the
\* sentinel "[BODY TOO LARGE]" otherwise.
RequestBodyRestored ==
  (capture.phase # "start" /\ ~capture.readErr) =>
    /\ capture.read => capture.handlerBody = capture.sent
    /\ ~capture.read => capture.body = capture.sent
    /\ Len(capture.sent) <= MaxBodySize => capture.requestBody = capture.sent
    /\ Len(capture.sent) > MaxBodySize => capture.requestBody = BodyTooLarge

RequestBodyRestoredWitness ==
  /\ capture.phase = "done"
  /\ ~capture.readErr
  /\ capture.read
  /\ Len(capture.sent) > MaxBodySize
  /\ capture.handlerBody = capture.sent
  /\ capture.requestBody = BodyTooLarge

EqualFold(a, b) ==
  Len(a) = Len(b) /\ \A i \in 1..Len(a) : Lower(a[i]) = Lower(b[i])

\* C27: in the header map of a logged request no header appears whose name
\* equals, ignoring case, one of authorization, cookie and x-api-key, and
\* every other request header appears with its first value.
HeadersRedacted ==
  capture.phase = "done" =>
    /\ DOMAIN capture.headers \subseteq DOMAIN capture.header
    /\ \A n \in DOMAIN capture.header :
         IF \E e \in CfgExcludedHeaders : EqualFold(n, e)
         THEN n \notin DOMAIN capture.headers
         ELSE /\ n \in DOMAIN capture.headers
              /\ capture.headers[n] = Head(capture.header[n])

HeadersRedactedWitness ==
  /\ capture.phase = "done"
  /\ HAuthorization \in DOMAIN capture.header
  /\ HAuthorization \notin DOMAIN capture.headers
  /\ HAccept \in DOMAIN capture.headers
  /\ capture.header[HAccept] = <<"v", "w">>
  /\ capture.headers[HAccept] = "v"

\* C28: a request whose matched route pattern contains "swagger" goes past
\* the limiter without any operation on the counting store: the limiter
\* never answers it, it neither creates nor increments its client's counter,
\* and a store that fails does not stop it.
LimiterBypass ==
  \A r \in Reqs :
    req[r].swagger =>
      /\ req[r].lim = "bypass"
      /\ ~req[r].ops
      /\ ~req[r].wrote
      /\ ~req[r].err
      /\ req[r].by # "limiter"

----------------------------------------------------------------------------
(* The admission gate with a queue: one request slot more than elsewhere,  *)
(* so that two requests wait behind the holders, and one client address.   *)

InitGate ==
  /\ build \in Builds
  /\ req = [r \in 1..(NumReq + 1) |-> Fresh(CHOOSE c \in Clients : TRUE)]
  /\ sema = [size |-> Capacity, cur |-> 0, waiters |-> <<>>]
  /\ redis = [c \in Clients |-> Absent]
  /\ hist = [c \in Clients |-> HistInit]
  /\ LogIdle
  /\ ChainIdle

\* what a request does once it has a token, up to and including its Release
Proceed(r) ==
  \/ AcquireReturn(r) \/ AcquireReturnCancelled(r)
  \/ RlBypass(r) \/ RlGet(r, FALSE) \/ RlSet(r) \/ RlTTL(r) \/ RlIncr(r)
  \/ Handler(r) \/ LogEnqueue(r) \/ Release(r)

NextGate ==
  \/ \E r \in Reqs, c \in Clients :
       ArriveCancelled(r, c) \/ ArriveFast(r, c) \/ ArriveWait(r, c)
  \/ \E r \in Reqs : WaitCancelled(r) \/ Proceed(r)

SpecGate == InitGate /\ [][NextGate]_vars

\* Every goroutine that holds a token is scheduled and its handler chain
\* returns: the deferred Release runs.
SpecGateFair == SpecGate /\ \A r \in 1..(NumReq + 1) : WF_vars(Proceed(r))

Before(p, q, ws) ==
  \E i, j \in 1..Len(ws) : i < j /\ ws[i] = p /\ ws[j] = q

\* C29: when every holder of a token releases it in the end, a request that
\* waits in Acquire obtains a token unless its context is cancelled; a
\* request that starts to wait queues behind those that wait already, and a
\* waiter obtains its token only when none that queued before it still waits.
GateWaitersProgress ==
  /\ \A r \in 1..(NumReq + 1) :
       (req[r].pc = "waiting") ~>
         (req[r].pc = "granted" \/ (req[r].pc = "done" /\ req[r].by = "gate"))
  /\ [][\A p, q \in Reqs :
          /\ (req[p].pc = "waiting" /\ req'[p].pc = "waiting"
              /\ req[q].pc # "waiting" /\ req'[q].pc = "waiting")
               => Before(p, q, sema'.waiters)
          /\ (Before(p, q, sema.waiters) /\ req'[q].pc = "granted")
               => req'[p].pc # "waiting"]_vars

GateWaitersProgressWitness ==
  \E p, q \in Reqs :
    /\ req[p].pc = "granted"
    /\ req[q].pc = "waiting"
    /\ \E h \in Reqs : req[h].pc = "done" /\ req[h].rel = 1

----------------------------------------------------------------------------
(* The ticket search handler GetByWord: binding of the query string,       *)
(* trimming of q, the call of the search backend and the answer.           *)

QueryValues == UNION {[1..k -> {" ", "x"}] : k \in 0..MaxQuery}

PageValues == {<<>>, <<"1">>, <<"a">>}

\* the query string of the request: the parameters present and their values
Forms ==
  {f \in [has : SUBSET {"q", "page", "page_size"}, q : QueryValues,
          page : PageValues, page_size : PageValues] :
     /\ "q" \notin f.has => f.q = <<>>
     /\ "page" \notin f.has => f.page = <<>>
     /\ "page_size" \notin f.has => f.page_size = <<>>}

\* binding of an int field: an absent or empty parameter leaves zero
IntField(present, val) ==
  IF ~present \/ val = <<>> THEN [ok |-> TRUE, n |-> 0] ELSE Atoi(val)

\* c.ShouldBindQuery(&params) on SearchParams {Query `form:"q"
\* binding:"required"`, Page `form:"page"`, PageSize `form:"page_size"`}
BindQuery(f) ==
  LET p == IntField("page" \in f.has, f.page)
      ps == IntField("page_size" \in f.has, f.page_size)
  IN [ok |-> p.ok /\ ps.ok /\ f.q # <<>>,
      params |-> [Query |-> f.q, Page |-> p.n, PageSize |-> ps.n]]

RECURSIVE TrimLeft(_)
TrimLeft(s) == IF s # <<>> /\ Head(s) = " " THEN TrimLeft(Tail(s)) ELSE s

RECURSIVE TrimRight(_)
TrimRight(s) ==
  IF s # <<>> /\ s[Len(s)] = " " THEN TrimRight(SubSeq(s, 1, Len(s) - 1)) ELSE s

TrimSpaceNone(s) == s

\* strings.TrimSpace
TrimSpace(s) == TrimRight(TrimLeft(s))

\* c.JSON(http.StatusBadRequest, dto.NewErrorResponse(...)); return
BadRequest(text) ==
  [search EXCEPT !.phase = "done", !.status = 400, !.error = text]

\* GetByWord up to the call of cfg.ES.SearchTicketsBySomeWord
GetByWord(f) ==
  /\ search.phase = "start"
  /\ LET b == BindQuery(f)
         Query == TrimSpace(b.params.Query)
     IN search' =
          IF ~b.ok THEN [BadRequest("bind") EXCEPT !.form = f]
          ELSE IF Query = <<>>
          THEN [BadRequest("Search query 'q' is required") EXCEPT !.form = f]
          ELSE [search EXCEPT !.phase = "search", !.form = f, !.called = TRUE,
                              !.params = [b.params EXCEPT !.Query = Query]]
  /\ UNCHANGED <<pipeVars, logVars, jwt, uuids, capture, boot>>

\* what the search backend returns: a result or an error
Outcomes ==
  {[failed |-> FALSE, error |-> "", result |-> r] : r \in {"r1", "r2"}}
  \cup {[failed |-> TRUE, error |-> e, result |-> ""] :
          e \in {"connection to elasticsearch failed", "context deadline exceeded"}}

\* GetByWord once the backend has returned
SearchReturn(out) ==
  /\ search.phase = "search"
  /\ search' =
       IF out.failed
       THEN [search EXCEPT !.phase = "done", !.out = out, !.status = 500,
                           !.error = out.error]
       ELSE [search EXCEPT !.phase = "done", !.out = out, !.status = 200,
                           !.body = out.result]
  /\ UNCHANGED <<pipeVars, logVars, jwt, uuids, capture, boot>>

InitSearch ==
  /\ build = "part_011"
  /\ req = [r \in 1..NumReq |-> Fresh(CHOOSE c \in Clients : TRUE)]
  /\ sema = [size |-> Capacity, cur |-> 0, waiters |-> <<>>]
  /\ redis = [c \in Clients |-> Absent]
  /\ hist = [c \in Clients |-> HistInit]
  /\ LogIdle
  /\ ChainIdle

NextSearch ==
  \/ \E f \in Forms : GetByWord(f)
  \/ \E out \in Outcomes : SearchReturn(out)

SpecSearch == InitSearch /\ [][NextSearch]_vars

Blank(s) == \A i \in 1..Len(s) : s[i] = " "

QMissing(f) == "q" \notin f.has \/ Blank(f.q)

NotInt(present, val) ==
  present /\ val # <<>> /\ \E i \in 1..Len(val) : ~IsDigit(val[i])

Answered ==
  IF search.out.failed
  THEN search.status = 500 /\ search.error = search.out.error
  ELSE search.status = 200 /\ search.body = search.out.result

\* C30 as stated: GetByWord answers 400 without calling the search backend
\* when q is missing or empty after trimming; 500 with the backend's error
\* text when the search fails; in every other case 200 with the backend's
\* result.
TicketSearchValidation ==
  search.phase = "done" =>
    IF QMissing(search.form)
    THEN search.status = 400 /\ ~search.called
    ELSE Answered

\* C30, amended: GetByWord answers 400 without calling the search backend
\* when q is missing or empty after trimming, or when page or page_size is
\* not an integer; 500 with the backend's error text when the search fails;
\* in every other case 200 with the backend's result.
TicketSearchValidationBound ==
  search.phase = "done" =>
    IF \/ QMissing(search.form)
       \/ NotInt("page" \in search.form.has, search.form.page)
       \/ NotInt("page_size" \in search.form.has, search.form.page_size)
    THEN search.status = 400 /\ ~search.called
    ELSE Answered

TicketSearchValidationBoundWitness ==
  /\ search.phase = "done"
  /\ search.form.q = <<" ", "x">>
  /\ search.form.page = <<"1">>
  /\ search.called
  /\ search.params.Query = <<"x">>
  /\ search.status = 200
  /\ search.body = "r2"

\* C31: every counter key that exists in the store and that no other user of
\* the store has written has an expiry, and its remaining TTL is at most the
\* window length, whatever the interleaving of checkRateLimit calls with the
\* expiry of keys.
CounterHasExpiry ==
  \A c \in Clients :
    (Exists(c) /\ ~hist[c].foreign) => redis[c].ttl \in 1..Window

\* C32: while a client's counter exists (one window), no step of a request
\* makes its value smaller or its remaining TTL larger; in particular a
\* Set(key, 1, window) that runs after the counter was created or incremented
\* neither resets the count nor restarts the window.
WindowNotReset ==
  [][\A c \in Clients :
       (Exists(c) /\ Exists(c)' /\ ~hist'[c].foreign) =>
         /\ Atoi(redis'[c].val).n >= Atoi(redis[c].val).n
         /\ redis[c].ttl > 0 => (redis'[c].ttl > 0 /\ redis'[c].ttl <= redis[c].ttl)]_vars

\* C33: a log call made while Close() runs or after Close() has returned
\* completes without panicking: it is filtered, queued or dropped.
LogSafeAroundShutdown ==
  [][(calls' # calls /\ closer # "none") =>
       last'.outcome \in {"filtered", "queued", "dropped"}]_vars

\* C34: when the worker observes the shutdown signal and the sink is healthy,
\* its final flush writes the entries of its batch to the sink, in order.
FinalFlushDelivers ==
  [][(worker = "running" /\ worker' = "exited" /\ sinkUp) =>
       sink' = sink \o batch]_vars

\* the entries of log calls in s are in the order of their calls
InCallOrder(s) ==
  \A i, j \in 1..Len(s) :
    (i < j /\ s[i].id # 0 /\ s[j].id # 0) => s[i].id < s[j].id

\* C35: the worker writes entries to the sink in the order in which they were
\* accepted into the queue: what is in the sink, then in the batch, then in
\* the queue is in acceptance order, and a flush only appends to the sink,
\* whether it is triggered by size, by the timer or by shutdown.
SinkInOrder ==
  /\ [](InCallOrder(sink \o batch \o logChannel))
  /\ [][Len(sink') >= Len(sink) /\ SubSeq(sink', 1, Len(sink)) = sink]_vars

SinkInOrderWitness ==
  /\ Len(sink) = MaxCalls
  /\ \A i \in 1..Len(sink) : sink[i].id = i
  /\ worker = "exited"

\* C36: for any sequence of Write calls the captured bytes are at most
\* MaxBodySize long and a prefix of the bytes written to the client, and once
\* a write was not captured no later write is captured.
CaptureIsPrefix ==
  /\ [](/\ Len(capture.buf) <= MaxBodySize
        /\ Len(capture.buf) <= Len(capture.client)
        /\ capture.buf = SubSeq(capture.client, 1, Len(capture.buf)))
  /\ [][Len(capture.buf) < Len(capture.client) => capture'.buf = capture.buf]_vars

----------------------------------------------------------------------------
(* The custom fields of a request's log entry *)

InitFields ==
  /\ build = "part_011"
  /\ req = [r \in 1..NumReq |-> Fresh(CHOOSE c \in Clients : TRUE)]
  /\ sema = [size |-> Capacity, cur |-> 0, waiters |-> <<>>]
  /\ redis = [c \in Clients |-> Absent]
  /\ hist = [c \in Clients |-> HistInit]
  /\ LogIdle
  /\ ChainIdle

NextFields ==
  \/ \E sent \in BytesUpTo(MaxBodySize + 1), err \in BOOLEAN :
       ReadRequestBody(sent, err)
  \/ ReadBody
  \/ \E f \in LogFieldMaps : AddLogFields(f)
  \/ \E header \in {h \in HeaderMaps : DOMAIN h \subseteq {HAccept}} :
       LogRequest(header)

SpecFields == InitFields /\ [][NextFields]_vars

\* C37: the log entry of a request carries no custom field whose name
\* equals, ignoring case, one of the configured SensitiveFields (password,
\* token, secret).
SensitiveRedacted ==
  capture.phase = "done" =>
    \A n \in DOMAIN capture.fields :
      ~\E s \in SensitiveFields : EqualFold(n, s)

HasToken(r) == Holding(r) \/ req[r].pc = "granted"

\* C38: with the gate at capacity C, a request waits only while all C tokens
\* are taken; an arriving request acquires at once when a token is free and
\* nobody waits, and waits otherwise; a waiter is granted its token only in
\* the step in which a request that had one gives it back; it then runs to
\* its end, and a waiter leaves the queue only by grant or by cancellation
\* of its own context.
GateScenario ==
  /\ [](sema.waiters # <<>> => sema.cur = sema.size)
  /\ [][\A r \in Reqs :
          /\ (req[r].pc \in {"idle", "done"} /\ req'[r].pc \in {"rl_get", "waiting"})
               => req'[r].pc = (IF sema.cur < sema.size /\ sema.waiters = <<>>
                                THEN "rl_get" ELSE "waiting")
          /\ (req[r].pc = "waiting" /\ req'[r].pc = "granted")
               => /\ sema.cur = sema.size
                  /\ \E h \in Reqs \ {r} : HasToken(h) /\ req'[h].pc = "done"
          /\ (req[r].pc = "waiting" /\ req'[r].pc # "waiting")
               => \/ req'[r].pc = "granted"
                  \/ req'[r].pc = "done" /\ req'[r].by = "gate" /\ req'[r].status = 429]_vars
  /\ \A r \in 1..(NumReq + 1) :
       /\ (req[r].pc = "waiting") ~> (req[r].pc \in {"granted", "done"})
       /\ (req[r].pc = "granted" \/ Holding(r)) ~> (req[r].pc = "done")

GateScenarioWitness ==
  /\ sema.cur = sema.size
  /\ Cardinality({r \in Reqs : req[r].pc = "waiting"}) = 1
  /\ \E p \in Reqs : req[p].pc = "rl_get"
  /\ \E h \in Reqs : req[h].pc = "done" /\ req[h].rel = 1 /\ req[h].by # "gate"

\* the logging middleware has made its log call for request r: the entry was
\* queued, dropped on a full queue, or met a closed channel
LogCallMade(r) == req[r].logged \in {"queued", "dropped"} \/ req[r].panic

\* C39: a request answered by the admission gate (429) or by the rate
\* limiter (429 or 500) never reaches the logging middleware and has no log
\* entry; a request answered 401 by the auth gate has had its one log call
\* when the logging middleware returns.
EarlyRejectionsNotLogged ==
  \A r \in Reqs :
    /\ req[r].by \in {"gate", "limiter"} =>
         (~LogCallMade(r) /\ req[r].logId = <<>> /\ req[r].ev = <<>>)
    /\ (req[r].by = "auth" /\ req[r].status = 401 /\ req[r].pc = "defer") =>
         (LogCallMade(r) /\ req[r].logId # <<>>)

EarlyRejectionsNotLoggedWitness ==
  \E r, q \in Reqs :
    /\ req[r].by = "auth" /\ req[r].status = 401 /\ req[r].logged = "queued"
    /\ req[q].by = "gate" /\ req[q].status = 429 /\ req[q].logged = "no"

----------------------------------------------------------------------------
(* Start-up of an API instance while the store is in use *)

FlushAllCounters(store) ==
  [c \in Clients |-> IF store[c].val = Garbage THEN store[c] ELSE Absent]

\* RedisInternal.FlushAll: FLUSHALL deletes every key of the store
FlushAll(store) == [c \in Clients |-> Absent]

\* setupRedisDB of an instance that starts: cfg.Redis.FlushAll(ctx), whose
\* reply is not looked at
SetupRedisDB ==
  /\ boot.n < MaxBoots
  /\ \E fail \in BOOLEAN :
       /\ boot' = [n |-> boot.n + 1, ok |-> ~fail,
                   wiped |-> Cardinality({c \in Clients : Exists(c)})]
       /\ IF fail
          THEN UNCHANGED <<redis, hist>>
          ELSE /\ redis' = FlushAll(redis)
               /\ hist' = [c \in Clients |->
                             [HistInit EXCEPT
                                !.clean = ~\E q \in Reqs : req[q].ip = c /\ InCheck(q)]]
  /\ UNCHANGED <<build, req, sema, logVars, jwt, uuids, capture, search>>

NextBoot == Next \/ SetupRedisDB

SpecBoot == Init /\ [][NextBoot]_vars

\* C40: the FlushAll of an instance's start-up, once the store has executed
\* it, leaves no key for any client, whoever wrote it: no counter exists and
\* every client's window is a fresh one.
StartupClearsCounters ==
  [][(boot'.n # boot.n /\ boot'.ok) =>
       \A c \in Clients :
         /\ ~Exists(c)'
         /\ redis'[c] = Absent
         /\ hist'[c].admitted = 0 /\ hist'[c].age = 0 /\ ~hist'[c].foreign]_vars

StartupClearsCountersWitness ==
  /\ boot.n = 1 /\ boot.ok /\ boot.wiped > 0
  /\ \A c \in Clients : ~Exists(c)

====
